---------------------------- MODULE Spec2Model ----------------------------
(***************************************************************************)
(* A model of the B+Tree index of src/Btree/src/btree.cpp (BTreeIndex):    *)
(* the node pages of the index file as the buffer manager holds them, the  *)
(* pin count of every page, the insert path (insert, leafSplitInsert,      *)
(* combineNonleaf) and the range scan (startScan, scanNext, endScan).      *)
(*                                                                         *)
(* Arrays keep the source's 0-based indices: keyArray, ridArray and        *)
(* pageNoArray are functions over 0..n-1.  A page keeps every byte that    *)
(* was ever written to it: slots beyond key_count hold stale data, as in   *)
(* the source, which only lowers key_count on a split.                     *)
(***************************************************************************)
EXTENDS Integers, Sequences, FiniteSets, TLC

(***************************************************************************)
(* Capacities.  The node capacities of the source are fixed by the page    *)
(* size; the model scales them down so that leaf splits, internal splits   *)
(* and root promotion all happen within a few insertions.                  *)
(***************************************************************************)
INTARRAYLEAFSIZE == 2

INTARRAYNONLEAFSIZE == 3

\* Runs of the tree specification without duplicate keys: keys 1..MaxKey, at
\* most MaxInserts calls of insertEntry.
MaxKey == 9

MaxInserts == 9

\* Runs of the tree specification with duplicate keys: keys 1..MaxDupKey, at
\* most MaxDupInserts calls of insertEntry.
MaxDupKey == 3

MaxDupInserts == 12

\* Number of insertEntry calls and largest key in a run with scan calls.
MaxScanInserts == 2

MaxScanKey == 2

\* Keys and inserts of the close-and-reopen specification.
MaxReopenKey == 6

MaxReopenInserts == 6

\* Keys and inserts of the specification with a failing buffer manager, and
\* the most calls the buffer manager serves within an insertEntry before it
\* fails one.
MaxFaultKey == 4

MaxFaultInserts == 4

MaxFaultIn == 12

\* Inserts of the specification with keys at the ends of the int range.
MaxEdgeInserts == 3

\* Most pins the scan specification lets the index hold at once.
MaxPins == 2

\* Keys and inserts of the specification that mixes inserts with scans.
MaxMixKey == 5

MaxMixInserts == 5

\* The 32-bit two's-complement int of the source: keyValue + 1 wraps.
INT_MAX == 2147483647

INT_MIN == -INT_MAX - 1

IncInt32(x) == IF x = INT_MAX THEN INT_MIN ELSE x + 1

\* enum Operator of the source's interface.
LT == "LT"

LTE == "LTE"

GTE == "GTE"

GT == "GT"

Operator == {LT, LTE, GTE, GT}

\* The exceptions an operation can end with ("none": it returned).
NoError == "none"

(***************************************************************************)
(* Pages.  One record shape stands for the three page layouts (meta page,  *)
(* NonLeafNodeInt, LeafNodeInt); a page allocated by the buffer manager is *)
(* zero-filled, and so is what a read of page id 0 returns.                *)
(***************************************************************************)
KeySlots == IF INTARRAYLEAFSIZE > INTARRAYNONLEAFSIZE
            THEN INTARRAYLEAFSIZE ELSE INTARRAYNONLEAFSIZE

NoRid == <<0, 0>>

ZeroPage ==
    [isLeaf |-> 0, level |-> 0, key_count |-> 0, parent |-> 0,
     rightSibPageNo |-> 0, rootPageNo |-> 0,
     relationName |-> "", attrByteOffset |-> 0, attrType |-> "",
     keyArray |-> [i \in 0..(KeySlots - 1) |-> 0],
     ridArray |-> [i \in 0..(INTARRAYLEAFSIZE - 1) |-> NoRid],
     pageNoArray |-> [i \in 0..INTARRAYNONLEAFSIZE |-> 0]]

\* An operation that throws leaves the name of the exception in err.
Throw(S, e) == [S EXCEPT !.err = e]

\* The buffer manager has failed a call of this insertEntry: the exception
\* is on its way to the caller and the statements it passes are not executed.
Unwinding(S) == S.err = "BufferExceeded"

PageAt(S, p) == IF p \in DOMAIN S.pages THEN S.pages[p] ELSE ZeroPage

\* A write to the pinned page p.  written collects the pages the running
\* operation has written.
SetPage(S, p, pg) ==
    IF Unwinding(S) THEN S
    ELSE [S EXCEPT !.pages[p] = pg, !.written = @ \cup {p}]

(***************************************************************************)
(* The buffer manager, as the index uses it.  readPage and allocPage pin,  *)
(* unPinPage releases one pin and fails (PageNotPinned) on a page with no  *)
(* pin; the failure is remembered in pinErr.  pages is what a read of a    *)
(* page returns (the buffer pool over the file), disk what the file holds, *)
(* dirty the pages whose frame has its dirty bit set.  faultIn is the       *)
(* number of readPage and allocPage calls the buffer manager still serves  *)
(* before it fails one (BufferExceeded: no frame is free); -1: it fails    *)
(* none.  released collects the pages the running operation has released  *)
(* with dirty = true after it wrote them.                                  *)
(***************************************************************************)
Served(S) == [S EXCEPT !.faultIn = IF @ > 0 THEN @ - 1 ELSE @]

readPage(S, p) ==
    IF Unwinding(S) THEN S
    ELSE IF S.faultIn = 0 THEN Throw(S, "BufferExceeded")
    ELSE [Served(S) EXCEPT !.pin[p] = @ + 1]

unPinPage(S, p, dirty) ==
    IF Unwinding(S) THEN S
    ELSE IF S.pin[p] = 0 THEN [S EXCEPT !.pinErr = TRUE]
    ELSE [S EXCEPT !.pin[p] = @ - 1,
                   !.dirty = IF dirty THEN @ \cup {p} ELSE @,
                   !.released = IF dirty /\ p \in S.written
                                THEN @ \cup {p} ELSE @]

NewPageId(S) == Len(S.pages) + 1

allocPage(S) ==
    IF Unwinding(S) THEN S
    ELSE IF S.faultIn = 0 THEN Throw(S, "BufferExceeded")
    ELSE [Served(S) EXCEPT
              !.pages = Append(@, ZeroPage),
              !.disk = Append(@, ZeroPage),
              !.pin = [q \in 0..(Len(S.pages) + 1) |->
                          IF q <= Len(S.pages) THEN S.pin[q] ELSE 1]]


(***************************************************************************)
(* The insertion loops of the source.  Each looks for the first slot whose *)
(* key is strictly greater than the new key, moves the suffix one slot to  *)
(* the right (memmove) and writes the new entry; with no such slot the     *)
(* entry is appended at key_count.                                         *)
(***************************************************************************)
\* The first i < n with key < arr[i], or -1 (the loop ended, nothing found).
FirstGreater(arr, n, key) ==
    IF \E i \in 0..(n - 1) : key < arr[i]
    THEN CHOOSE i \in 0..(n - 1) :
            /\ key < arr[i]
            /\ \A j \in 0..(i - 1) : ~(key < arr[j])
    ELSE -1

\* memmove(&arr[i + 1], &arr[i], (n - i) * size); arr[i] = v
ShiftInsert(arr, i, n, v) ==
    [j \in DOMAIN arr |->
        IF j = i THEN v
        ELSE IF j > i /\ j <= n THEN arr[j - 1]
        ELSE arr[j]]

\* The leaf insertion of insert (lines 212-232) and leafSplitInsert (293-312).
LeafPut(node, keyValue, rid) ==
    LET i == FirstGreater(node.keyArray, node.key_count, keyValue)
        at == IF i = -1 THEN node.key_count ELSE i
    IN  [node EXCEPT
            !.keyArray = ShiftInsert(node.keyArray, at, node.key_count, keyValue),
            !.ridArray = ShiftInsert(node.ridArray, at, node.key_count, rid),
            !.key_count = @ + 1]

\* memmove(&p[i + 2], &p[i + 1], (n - i) * size); p[i] = left; p[i + 1] = right
ShiftInsertPages(arr, i, n, left, right) ==
    [j \in DOMAIN arr |->
        IF j = i THEN left
        ELSE IF j = i + 1 THEN right
        ELSE IF j >= i + 2 /\ j <= n + 1 THEN arr[j - 1]
        ELSE arr[j]]

\* Placing the one key of node1 (with its two children) into a non-leaf node:
\* combineNonleaf lines 336-358 (key_count < capacity) and 427-450 (after the
\* split).  The loops compare keyArray[i] > key, the same strict order.
NonLeafPut(node, keyValue, left, right) ==
    LET i == FirstGreater(node.keyArray, node.key_count, keyValue)
        at == IF i = -1 THEN node.key_count ELSE i
    IN  [node EXCEPT
            !.keyArray = ShiftInsert(node.keyArray, at, node.key_count, keyValue),
            !.pageNoArray = ShiftInsertPages(node.pageNoArray, at, node.key_count,
                                             left, right),
            !.key_count = @ + 1]

\* node(p)->parent = owner, on a page that is pinned.
SetParent(S, p, owner) == SetPage(S, p, [PageAt(S, p) EXCEPT !.parent = owner])

\* child->parent = owner, under a pin of its own (readPage ... unPinPage).
Reparent(S, child, owner) ==
    unPinPage(SetParent(readPage(S, child), child, owner), child, TRUE)

\* for (i = 0; i < node->key_count + 1; i++) child(i)->parent = owner
RECURSIVE ReparentAll(_, _, _, _)
ReparentAll(S, pid, i, owner) ==
    IF i < PageAt(S, pid).key_count + 1
    THEN ReparentAll(Reparent(S, PageAt(S, pid).pageNoArray[i], owner),
                     pid, i + 1, owner)
    ELSE S

(***************************************************************************)
(* combineNonleaf(pid1, pid2): pid1 is a one-key node holding a separator  *)
(* and its two children; it is merged into pid2, which is split when full. *)
(***************************************************************************)
RECURSIVE combineNonleaf(_, _, _)

\* node2 has room: the key and the two children of node1 are placed in node2
\* and both children get pid2 as their parent.  The two branches of
\* "node1->level == 1" differ in the pointer type only.
combineInto(S, pid2, node1, node2) ==
    unPinPage(
      unPinPage(
        SetParent(
          SetParent(
            readPage(
              readPage(
                SetPage(S, pid2,
                        NonLeafPut(node2, node1.keyArray[0],
                                   node1.pageNoArray[0], node1.pageNoArray[1])),
                node1.pageNoArray[0]),
              node1.pageNoArray[1]),
            node1.pageNoArray[0], pid2),
          node1.pageNoArray[1], pid2),
        node1.pageNoArray[0], TRUE),
      node1.pageNoArray[1], TRUE)

splitIndex == INTARRAYNONLEAFSIZE \div 2

\* A newNode that takes the middle key along with the keys above it.
splitNewNodeWithMiddle(blank, node2) ==
    [blank EXCEPT
        !.isLeaf = 0,
        !.level = node2.level,
        !.keyArray = [j \in DOMAIN @ |->
            IF j < node2.key_count - splitIndex
            THEN node2.keyArray[j + splitIndex]
            ELSE @[j]],
        !.pageNoArray = [j \in DOMAIN @ |->
            IF j < node2.key_count - splitIndex
            THEN node2.pageNoArray[j + splitIndex + 1]
            ELSE @[j]],
        !.key_count = INTARRAYNONLEAFSIZE - splitIndex]

\* newNode: the keys and children of node2 above splitIndex (the two memcpy).
splitNewNode(blank, node2) ==
    [blank EXCEPT
        !.isLeaf = 0,
        !.level = node2.level,
        !.keyArray = [j \in DOMAIN @ |->
            IF j < node2.key_count - splitIndex - 1
            THEN node2.keyArray[j + splitIndex + 1]
            ELSE @[j]],
        !.pageNoArray = [j \in DOMAIN @ |->
            IF j < node2.key_count - splitIndex
            THEN node2.pageNoArray[j + splitIndex + 1]
            ELSE @[j]],
        !.key_count = INTARRAYNONLEAFSIZE - splitIndex - 1]

\* A newParent whose left child is the first child of node2, one level down.
splitParentOverChild(blank, node2, pid2, newNodeID) ==
    [blank EXCEPT
        !.isLeaf = 0,
        !.level = 0,
        !.keyArray[0] = node2.keyArray[splitIndex],
        !.pageNoArray[0] = node2.pageNoArray[0],
        !.pageNoArray[1] = newNodeID,
        !.key_count = 1]

\* newParent: a one-key node over node2 and newNode, keyed by the middle key.
splitNewParent(blank, node2, pid2, newNodeID) ==
    [blank EXCEPT
        !.isLeaf = 0,
        !.level = 0,
        !.keyArray[0] = node2.keyArray[splitIndex],
        !.pageNoArray[0] = pid2,
        !.pageNoArray[1] = newNodeID,
        !.key_count = 1]

\* "if (keyValue < newNode->keyArray[0]) addNode = node2": the half that takes
\* the key of node1 is chosen by the first key of newNode.
splitAddToOld(node1, newNode) == node1.keyArray[0] < newNode.keyArray[0]

\* The three pages after the key of node1 is placed in addNode.
splitPlace(S, pid2, node1, node2, newNodeID, newParentID, newNode) ==
    SetPage(
      SetPage(
        SetPage(S, pid2,
                IF splitAddToOld(node1, newNode)
                THEN NonLeafPut([node2 EXCEPT !.key_count = splitIndex],
                                node1.keyArray[0],
                                node1.pageNoArray[0], node1.pageNoArray[1])
                ELSE [node2 EXCEPT !.key_count = splitIndex]),
        newNodeID,
        IF splitAddToOld(node1, newNode)
        THEN newNode
        ELSE NonLeafPut(newNode, node1.keyArray[0],
                        node1.pageNoArray[0], node1.pageNoArray[1])),
      newParentID,
      splitNewParent(PageAt(S, newParentID), node2, pid2, newNodeID))

\* A promotion that moves the root in the meta page only.
splitNewRootMetaOnly(S, newParentID) ==
    unPinPage(SetPage(S, S.headerPageNum,
                      [PageAt(S, S.headerPageNum) EXCEPT !.rootPageNo = newParentID]),
              S.headerPageNum, TRUE)

\* A promotion that moves the root in the index object only.
splitNewRootInMemory(S, newParentID) ==
    unPinPage([S EXCEPT !.rootPageNum = newParentID], S.headerPageNum, TRUE)

\* n2Parent == 0: newParent becomes the root, in the index and in the meta page.
splitNewRoot(S, newParentID) ==
    IF Unwinding(S) THEN S
    ELSE unPinPage(
           [SetPage(S, S.headerPageNum,
                    [PageAt(S, S.headerPageNum) EXCEPT !.rootPageNo = newParentID])
            EXCEPT !.rootPageNum = newParentID],
           S.headerPageNum, TRUE)

\* node2 and newNode hang under newParent, which goes to the old parent of
\* node2 or becomes the root.
splitPromote(S, pid2, newNodeID, newParentID, n2Parent) ==
    IF n2Parent = 0
    THEN splitNewRoot(readPage(SetParent(S, newParentID, 0), S.headerPageNum),
                      newParentID)
    ELSE combineNonleaf(S, newParentID, n2Parent)

splitLink(S, pid2, newNodeID, newParentID) ==
    unPinPage(
      unPinPage(
        splitPromote(SetParent(SetParent(S, pid2, newParentID),
                               newNodeID, newParentID),
                     pid2, newNodeID, newParentID, PageAt(S, pid2).parent),
        newNodeID, TRUE),
      newParentID, TRUE)

\* node2 is full: split it, place the key of node1, re-parent the children of
\* both halves and promote.  S holds the two pages just allocated.
combineSplit(S, pid2, node1, node2, newNodeID, newParentID) ==
    splitLink(
      ReparentAll(
        ReparentAll(
          splitPlace(S, pid2, node1, node2, newNodeID, newParentID,
                     splitNewNode(PageAt(S, newNodeID), node2)),
          pid2, 0, pid2),
        newNodeID, 0, newNodeID),
      pid2, newNodeID, newParentID)

combinePinned(S, pid1, pid2) ==
    IF PageAt(S, pid2).key_count < INTARRAYNONLEAFSIZE
    THEN combineInto(S, pid2, PageAt(S, pid1), PageAt(S, pid2))
    ELSE combineSplit(allocPage(allocPage(S)), pid2,
                      PageAt(S, pid1), PageAt(S, pid2),
                      NewPageId(S), NewPageId(S) + 1)

combineNonleaf(S, pid1, pid2) ==
    IF Unwinding(S) THEN S
    ELSE unPinPage(
           unPinPage(combinePinned(readPage(readPage(S, pid1), pid2), pid1, pid2),
                     pid1, TRUE),
           pid2, TRUE)

(***************************************************************************)
(* leafSplitInsert(key, pid, rid): the leaf pid is full.                   *)
(***************************************************************************)
middle == INTARRAYLEAFSIZE \div 2

\* The new right leaf: the entries from middle on (the two memcpy) and the
\* sibling link of the old leaf.
leafSplitNewLeaf(blank, node, newNonleafID) ==
    [blank EXCEPT
        !.isLeaf = 1,
        !.keyArray = [j \in DOMAIN @ |->
            IF j < INTARRAYLEAFSIZE - middle THEN node.keyArray[j + middle]
            ELSE @[j]],
        !.ridArray = [j \in DOMAIN @ |->
            IF j < INTARRAYLEAFSIZE - middle THEN node.ridArray[j + middle]
            ELSE @[j]],
        !.key_count = INTARRAYLEAFSIZE - middle,
        !.rightSibPageNo = node.rightSibPageNo,
        !.parent = newNonleafID]

\* The old leaf keeps the entries below middle and links to the new leaf.
leafSplitOldLeaf(node, newPageId, newNonleafID) ==
    [node EXCEPT !.key_count = middle,
                 !.rightSibPageNo = newPageId,
                 !.parent = newNonleafID]

\* The one-key node over the two leaves; its key is the first key of newLeaf.
leafSplitNonleaf(blank, node, pid, newPageId) ==
    [blank EXCEPT
        !.isLeaf = 0,
        !.level = 1,
        !.key_count = 1,
        !.keyArray[0] = node.keyArray[middle],
        !.pageNoArray[0] = pid,
        !.pageNoArray[1] = newPageId]

\* A split that adds the entry to the new leaf whatever its key.
leafSplitPlaceRight(S, keyValue, pid, rid, node, newPageId, newNonleafID) ==
    SetPage(
      SetPage(
        SetPage(S, pid, leafSplitOldLeaf(node, newPageId, newNonleafID)),
        newPageId,
        LeafPut(leafSplitNewLeaf(PageAt(S, newPageId), node, newNonleafID),
                keyValue, rid)),
      newNonleafID,
      leafSplitNonleaf(PageAt(S, newNonleafID), node, pid, newPageId))

\* "if (keyValue < nonleaf->keyArray[0])" the entry goes to the old leaf,
\* else to the new one.
leafSplitPlace(S, keyValue, pid, rid, node, newPageId, newNonleafID) ==
    SetPage(
      SetPage(
        SetPage(S, pid,
                IF keyValue < node.keyArray[middle]
                THEN LeafPut(leafSplitOldLeaf(node, newPageId, newNonleafID),
                             keyValue, rid)
                ELSE leafSplitOldLeaf(node, newPageId, newNonleafID)),
        newPageId,
        IF keyValue < node.keyArray[middle]
        THEN leafSplitNewLeaf(PageAt(S, newPageId), node, newNonleafID)
        ELSE LeafPut(leafSplitNewLeaf(PageAt(S, newPageId), node, newNonleafID),
                     keyValue, rid)),
      newNonleafID,
      leafSplitNonleaf(PageAt(S, newNonleafID), node, pid, newPageId))

\* A leafSplitInsert that leaves the one-key node pinned.
leafSplitKeepsPin(S, keyValue, pid, rid, node, newPageId, newNonleafID) ==
    unPinPage(
      unPinPage(
        combineNonleaf(
          leafSplitPlace(S, keyValue, pid, rid, node, newPageId, newNonleafID),
          newNonleafID, node.parent),
        pid, TRUE),
      newPageId, TRUE)

\* S holds the leaf pinned and the two pages just allocated.
leafSplitPinned(S, keyValue, pid, rid, node, newPageId, newNonleafID) ==
    unPinPage(
      unPinPage(
        unPinPage(
          combineNonleaf(
            leafSplitPlace(S, keyValue, pid, rid, node, newPageId, newNonleafID),
            newNonleafID, node.parent),
          pid, TRUE),
        newPageId, TRUE),
      newNonleafID, TRUE)

\* Lines 256-267, between the two allocPage calls: the upper half is copied
\* to the new leaf and the two leaves are linked; S holds the new leaf.
leafSplitMove(S, pid, node, newPageId) ==
    SetPage(
      SetPage(S, pid, [node EXCEPT !.key_count = middle,
                                   !.rightSibPageNo = newPageId]),
      newPageId,
      [leafSplitNewLeaf(PageAt(S, newPageId), node, 0) EXCEPT
          !.parent = PageAt(S, newPageId).parent])

leafSplitInsert(S, keyValue, pid, rid) ==
    leafSplitPinned(
      allocPage(leafSplitMove(allocPage(readPage(S, pid)), pid,
                              PageAt(S, pid), NewPageId(S))),
      keyValue, pid, rid, PageAt(S, pid), NewPageId(S), NewPageId(S) + 1)

(***************************************************************************)
(* insert(key, pid, rid): the recursive descent of insertEntry.            *)
(***************************************************************************)
\* The first insert into the empty root: S holds the two leaves just allocated.
insertFirstPinned(S, keyValue, pid, rid, leftId, rightId) ==
    unPinPage(
      unPinPage(
        SetPage(
          SetPage(
            SetPage(S, leftId,
                    [PageAt(S, leftId) EXCEPT
                        !.isLeaf = 1, !.keyArray[0] = keyValue,
                        !.ridArray[0] = rid, !.key_count = 1,
                        !.parent = pid, !.rightSibPageNo = rightId]),
            rightId,
            [PageAt(S, rightId) EXCEPT
                !.isLeaf = 1, !.key_count = 0, !.parent = pid,
                !.rightSibPageNo = 0]),
          pid,
          [PageAt(S, pid) EXCEPT
              !.keyArray[0] = IncInt32(keyValue),
              !.pageNoArray[0] = leftId,
              !.pageNoArray[1] = rightId,
              !.level = 1,
              !.key_count = @ + 1]),
        leftId, TRUE),
      rightId, TRUE)

\* "node->keyArray[0] = keyValue + 1" (line 144) comes before the two
\* allocPage calls.
insertFirst(S, keyValue, pid, rid) ==
    insertFirstPinned(
      allocPage(allocPage(
        SetPage(S, pid, [PageAt(S, pid) EXCEPT
                            !.keyArray[0] = IncInt32(keyValue)]))),
      keyValue, pid, rid, NewPageId(S), NewPageId(S) + 1)

\* The child index of the descent.
InsertChildIndex(node, keyValue) ==
    IF FirstGreater(node.keyArray, node.key_count, keyValue) = -1
    THEN node.key_count
    ELSE FirstGreater(node.keyArray, node.key_count, keyValue)

RECURSIVE insert(_, _, _, _)

\* The body of insert on the pinned page pid.
insertPinned(S, keyValue, pid, rid, node) ==
    IF node.isLeaf = 0
    THEN IF node.key_count = 0
         THEN insertFirst(S, keyValue, pid, rid)
         ELSE insert(S, keyValue,
                     node.pageNoArray[InsertChildIndex(node, keyValue)], rid)
    ELSE IF node.isLeaf = 1
    THEN IF node.key_count < INTARRAYLEAFSIZE
         THEN SetPage(S, pid, LeafPut(node, keyValue, rid))
         ELSE leafSplitInsert(S, keyValue, pid, rid)
    ELSE S

\* An insert that releases the page it worked on as clean.
insertReleasesClean(S, keyValue, pid, rid) ==
    IF Unwinding(S) THEN S
    ELSE unPinPage(insertPinned(readPage(S, pid), keyValue, pid, rid,
                                PageAt(S, pid)),
                   pid, FALSE)

insert(S, keyValue, pid, rid) ==
    IF Unwinding(S) THEN S
    ELSE unPinPage(insertPinned(readPage(S, pid), keyValue, pid, rid,
                                PageAt(S, pid)),
                   pid, TRUE)

insertEntry(S, key, rid) == insert(S, key, S.rootPageNum, rid)


(***************************************************************************)
(* The scan.                                                               *)
(***************************************************************************)
isLeaf(page) == page.isLeaf = 1

findIndexNonLeaf(node, key) ==
    LET i == FirstGreater(node.keyArray, node.key_count, key)
    IN  IF i = -1 THEN node.key_count ELSE i

moveToNextPage(S, node) ==
    LET S1 == unPinPage(S, S.currentPageNum, FALSE)
        S2 == [S1 EXCEPT !.currentPageNum = node.rightSibPageNo]
    IN  [readPage(S2, S2.currentPageNum) EXCEPT !.nextEntry = 0]

\* The descent of startScan.  A non-leaf page that names itself as the child to
\* descend into (page id 0, which reads as zeroes) makes the recursion endless:
\* the call never returns ("Crash").
RECURSIVE setPageIdForScan(_)
setPageIdForScan(S) ==
    LET S1 == readPage(S, S.currentPageNum)
        node == PageAt(S1, S1.currentPageNum)
        S2 == unPinPage(S1, S1.currentPageNum, FALSE)
        next == node.pageNoArray[findIndexNonLeaf(node, S.lowValInt)]
    IN  IF isLeaf(node) THEN S1
        ELSE IF next = S.currentPageNum THEN Throw(S1, "Crash")
        ELSE setPageIdForScan([S2 EXCEPT !.currentPageNum = next])

\* The first slot i < key_count that satisfies the low bound, or -1.
ScanEntryIndex(node, lowVal, lowOpArg) ==
    LET ok(i) == IF lowOpArg = GTE THEN node.keyArray[i] >= lowVal
                 ELSE node.keyArray[i] > lowVal
    IN  IF \E i \in 0..(node.key_count - 1) : ok(i)
        THEN CHOOSE i \in 0..(node.key_count - 1) :
                ok(i) /\ \A j \in 0..(i - 1) : ~ok(j)
        ELSE -1

setEntryIndexForScan(S) ==
    LET node == PageAt(S, S.currentPageNum)
        entryIndex == ScanEntryIndex(node, S.lowValInt, S.lowOp)
    IN  IF entryIndex = -1 THEN moveToNextPage(S, node)
        ELSE [S EXCEPT !.nextEntry = entryIndex]

setNextEntry(S) ==
    LET S1 == [S EXCEPT !.nextEntry = @ + 1]
        node == PageAt(S1, S1.currentPageNum)
    IN  IF \/ S1.nextEntry >= node.key_count
           \/ node.ridArray[S1.nextEntry][1] = 0
        THEN moveToNextPage(S1, node)
        ELSE S1

\* The test of startScan (555-557) and scanNext (737-740): the slot ends the scan.
PastHigh(S, rid, val) ==
    \/ rid = NoRid
    \/ val > S.highValInt
    \/ (val = S.highValInt /\ S.highOp = LT)

endScan(S) ==
    IF ~S.scanExecuting THEN Throw(S, "ScanNotInitialized")
    ELSE unPinPage([S EXCEPT !.scanExecuting = FALSE, !.err = NoError],
                   S.currentPageNum, FALSE)

\* startScan once the operators and the range are accepted (lines 541-560).
startScanAccepted(S, lowOpParm, highOpParm) ==
    LET S2 == readPage([S EXCEPT !.lowOp = lowOpParm,
                                 !.highOp = highOpParm,
                                 !.scanExecuting = TRUE,
                                 !.err = NoError],
                       S.headerPageNum)
        S3 == unPinPage([S2 EXCEPT !.currentPageNum =
                             PageAt(S2, S2.headerPageNum).rootPageNo],
                        S2.headerPageNum, FALSE)
        S4 == setPageIdForScan(S3)
        S5 == setEntryIndexForScan(S4)
        node == PageAt(S5, S5.currentPageNum)
    IN  IF S4.err = "Crash" THEN S4
        ELSE IF PastHigh(S5, node.ridArray[S5.nextEntry],
                         node.keyArray[S5.nextEntry])
        THEN Throw(endScan(S5), "NoSuchKeyFound")
        ELSE S5

\* A startScan that tests the range before the operators.
startScanRangeFirst(S, lowValParm, lowOpParm, highValParm, highOpParm) ==
    IF lowValParm > highValParm
    THEN Throw([S EXCEPT !.lowValInt = lowValParm, !.highValInt = highValParm],
               "BadScanrange")
    ELSE IF lowOpParm # GT /\ lowOpParm # GTE THEN Throw(S, "BadOpcodes")
    ELSE IF highOpParm # LT /\ highOpParm # LTE THEN Throw(S, "BadOpcodes")
    ELSE startScanAccepted(
            [S EXCEPT !.lowValInt = lowValParm, !.highValInt = highValParm],
            lowOpParm, highOpParm)

\* A startScan that rejects lowVal = highVal when both operators are strict.
startScanEmptyRange(S, lowValParm, lowOpParm, highValParm, highOpParm) ==
    IF lowOpParm # GT /\ lowOpParm # GTE THEN Throw(S, "BadOpcodes")
    ELSE IF highOpParm # LT /\ highOpParm # LTE THEN Throw(S, "BadOpcodes")
    ELSE IF \/ lowValParm > highValParm
            \/ (lowValParm = highValParm /\ lowOpParm = GT /\ highOpParm = LT)
    THEN Throw([S EXCEPT !.lowValInt = lowValParm, !.highValInt = highValParm],
               "BadScanrange")
    ELSE startScanAccepted(
            [S EXCEPT !.lowValInt = lowValParm, !.highValInt = highValParm],
            lowOpParm, highOpParm)

startScan(S, lowValParm, lowOpParm, highValParm, highOpParm) ==
    IF lowOpParm # GT /\ lowOpParm # GTE THEN Throw(S, "BadOpcodes")
    ELSE IF highOpParm # LT /\ highOpParm # LTE THEN Throw(S, "BadOpcodes")
    ELSE IF lowValParm > highValParm
    THEN Throw([S EXCEPT !.lowValInt = lowValParm, !.highValInt = highValParm],
               "BadScanrange")
    ELSE startScanAccepted(
            [S EXCEPT !.lowValInt = lowValParm, !.highValInt = highValParm],
            lowOpParm, highOpParm)

\* A scanNext without the test of scanExecuting.
scanNextUnchecked(S) ==
    LET node == PageAt(S, S.currentPageNum)
        S1 == [S EXCEPT !.outRid = node.ridArray[S.nextEntry]]
        val == node.keyArray[S.nextEntry]
    IN  IF PastHigh(S1, S1.outRid, val) THEN Throw(S1, "IndexScanCompleted")
        ELSE setNextEntry([S1 EXCEPT !.err = NoError])

scanNext(S) ==
    IF ~S.scanExecuting THEN Throw(S, "ScanNotInitialized")
    ELSE
      LET node == PageAt(S, S.currentPageNum)
          S1 == [S EXCEPT !.outRid = node.ridArray[S.nextEntry]]
          val == node.keyArray[S.nextEntry]
      IN  IF PastHigh(S1, S1.outRid, val) THEN Throw(S1, "IndexScanCompleted")
          ELSE setNextEntry([S1 EXCEPT !.err = NoError])

(***************************************************************************)
(* Closing and reopening.  flushFile writes the dirty pages of the file    *)
(* and drops its frames, so that a later read returns what the file holds; *)
(* it refuses (PagePinned) while a page of the file is pinned.             *)
(***************************************************************************)
relationName == "relA"

INTEGER == "INTEGER"

\* The attribute types a caller can name: the one the tests use and another.
Datatype == {INTEGER, "DOUBLE"}

flushFile(S) ==
    IF \E q \in DOMAIN S.pin : S.pin[q] > 0 THEN Throw(S, "PagePinned")
    ELSE [S EXCEPT !.disk = [p \in DOMAIN S.pages |->
                                 IF p \in S.dirty THEN S.pages[p]
                                 ELSE S.disk[p]],
                   !.pages = [p \in DOMAIN S.pages |->
                                 IF p \in S.dirty THEN S.pages[p]
                                 ELSE S.disk[p]],
                   !.dirty = {}]

\* BTreeIndex::~BTreeIndex.
destructor(S) ==
    flushFile(IF S.scanExecuting THEN endScan(S) ELSE [S EXCEPT !.err = NoError])

\* The constructor over an existing index file (lines 36-65): the meta page
\* is the first page of the file.
openChecked(S, relName, offset, type, metaInfo) ==
    IF \/ relName # metaInfo.relationName
       \/ type # metaInfo.attrType
       \/ offset # metaInfo.attrByteOffset
    THEN Throw(S, "BadIndexInfo")
    ELSE unPinPage([S EXCEPT !.rootPageNum = metaInfo.rootPageNo,
                            !.err = NoError],
                   S.headerPageNum, FALSE)

openIndex(S, relName, offset, type) ==
    openChecked(readPage([S EXCEPT !.scanExecuting = FALSE,
                                   !.headerPageNum = 1], 1),
                relName, offset, type, PageAt(S, 1))

\* An index object before its constructor has run, over a file that does not
\* exist yet.
NewFile ==
    [pages |-> <<>>, pin |-> [q \in {0} |-> 0], pinErr |-> FALSE,
     headerPageNum |-> 0, rootPageNum |-> 0,
     scanExecuting |-> FALSE, currentPageNum |-> 0,
     nextEntry |-> 0, lowValInt |-> 0,
     highValInt |-> 0, lowOp |-> GT, highOp |-> LT,
     outRid |-> NoRid, err |-> NoError, disk |-> <<>>, dirty |-> {},
     faultIn |-> -1, written |-> {}, released |-> {}]

\* Lines 72-87: the meta page and the empty root are written and released.
\* S holds the two pages just allocated.
createPinned(S, relName, offset, type) ==
    unPinPage(
      unPinPage(
        SetPage(
          SetPage(S, S.headerPageNum,
                  [ZeroPage EXCEPT !.attrByteOffset = offset,
                                   !.attrType = type,
                                   !.rootPageNo = S.rootPageNum,
                                   !.relationName = relName]),
          S.rootPageNum,
          [ZeroPage EXCEPT !.level = 0, !.isLeaf = 0,
                           !.key_count = 0, !.parent = 0]),
        S.headerPageNum, TRUE),
      S.rootPageNum, TRUE)

\* The constructor when the index file does not exist (lines 66-103), over a
\* relation without records: the entries of the relation are the insertEntry
\* calls that follow.
createIndex(S, relName, offset, type) ==
    flushFile(
      createPinned([allocPage(allocPage(S)) EXCEPT !.headerPageNum = 1,
                                                   !.rootPageNum = 2],
                   relName, offset, type))

(***************************************************************************)
(* The state: the index file's pages (page id = position), the pin count   *)
(* of every page id, the fields of the BTreeIndex object, the caller's     *)
(* outRid, and what the last call was and how it ended.  cnt[k] counts the *)
(* insertEntry calls made with key k; args holds the arguments of the last *)
(* call when it was a startScan: <<lowVal, lowOp, highVal, highOp>>.       *)
(* disk and dirty are the file and the dirty bits of the buffer manager.   *)
(***************************************************************************)
VARIABLES pages, pin, pinErr, headerPageNum, rootPageNum, scanExecuting,
          currentPageNum, nextEntry, lowValInt, highValInt, lowOp, highOp,
          outRid, err, disk, dirty, op, args, cnt

vars == <<pages, pin, pinErr, headerPageNum, rootPageNum, scanExecuting,
          currentPageNum, nextEntry, lowValInt, highValInt, lowOp, highOp,
          outRid, err, disk, dirty, op, args, cnt>>

State ==
    [pages |-> pages, pin |-> pin, pinErr |-> pinErr,
     headerPageNum |-> headerPageNum, rootPageNum |-> rootPageNum,
     scanExecuting |-> scanExecuting, currentPageNum |-> currentPageNum,
     nextEntry |-> nextEntry, lowValInt |-> lowValInt,
     highValInt |-> highValInt, lowOp |-> lowOp, highOp |-> highOp,
     outRid |-> outRid, err |-> err, disk |-> disk, dirty |-> dirty,
     faultIn |-> -1, written |-> {}, released |-> {}]

Apply(S) ==
    /\ pages' = S.pages
    /\ pin' = S.pin
    /\ pinErr' = S.pinErr
    /\ headerPageNum' = S.headerPageNum
    /\ rootPageNum' = S.rootPageNum
    /\ scanExecuting' = S.scanExecuting
    /\ currentPageNum' = S.currentPageNum
    /\ nextEntry' = S.nextEntry
    /\ lowValInt' = S.lowValInt
    /\ highValInt' = S.highValInt
    /\ lowOp' = S.lowOp
    /\ highOp' = S.highOp
    /\ outRid' = S.outRid
    /\ err' = S.err
    /\ disk' = S.disk
    /\ dirty' = S.dirty

MaxOf(a, b) == IF a > b THEN a ELSE b

KeyDomain == 1..MaxOf(MaxKey, MaxOf(MaxDupKey, MaxScanKey))

\* The record id of the n-th record with key k in the relation (never (0,0)).
RidOf(k, n) == <<k, n>>

RECURSIVE SumUpTo(_, _)
SumUpTo(f, k) == IF k = 0 THEN 0 ELSE f[k] + SumUpTo(f, k - 1)

NumInserted == SumUpTo(cnt, MaxOf(MaxKey, MaxOf(MaxDupKey, MaxScanKey)))

\* The constructor on an empty relation (lines 69-104): the meta page and an
\* empty root, both unpinned again, and the file flushed.
Init ==
    /\ pages = << [ZeroPage EXCEPT !.rootPageNo = 2,
                                   !.relationName = relationName,
                                   !.attrByteOffset = 0,
                                   !.attrType = INTEGER],
                  [ZeroPage EXCEPT !.level = 0, !.isLeaf = 0,
                                   !.key_count = 0, !.parent = 0] >>
    /\ disk = pages
    /\ dirty = {}
    /\ pin = [q \in 0..2 |-> 0]
    /\ pinErr = FALSE
    /\ headerPageNum = 1
    /\ rootPageNum = 2
    /\ scanExecuting = FALSE
    /\ currentPageNum = 0
    /\ nextEntry = 0
    /\ lowValInt = 0
    /\ highValInt = 0
    /\ lowOp = GT
    /\ highOp = LT
    /\ outRid = NoRid
    /\ err = NoError
    /\ op = "new"
    /\ args = <<>>
    /\ cnt = [k \in KeyDomain |-> 0]

Alive == err # "Crash"

\* The index object exists: it has not been destroyed since it was built or
\* opened.
Constructed == op # "close" /\ ~(op = "open" /\ err = "BadIndexInfo")

InsertEntry(k) ==
    /\ Alive
    /\ Constructed
    /\ ~scanExecuting
    /\ Apply([insertEntry(State, k, RidOf(k, cnt[k] + 1)) EXCEPT !.err = NoError])
    /\ op' = "insertEntry"
    /\ args' = <<>>
    /\ cnt' = [cnt EXCEPT ![k] = @ + 1]

StartScan(lowValParm, lowOpParm, highValParm, highOpParm) ==
    /\ Alive
    /\ Constructed
    /\ Apply(startScan(State, lowValParm, lowOpParm, highValParm, highOpParm))
    /\ op' = "startScan"
    /\ args' = <<lowValParm, lowOpParm, highValParm, highOpParm>>
    /\ UNCHANGED cnt

ScanNext ==
    /\ Alive
    /\ Constructed
    /\ Apply(scanNext(State))
    /\ op' = "scanNext"
    /\ args' = <<>>
    /\ UNCHANGED cnt

EndScan ==
    /\ Alive
    /\ Constructed
    /\ Apply(endScan(State))
    /\ op' = "endScan"
    /\ args' = <<>>
    /\ UNCHANGED cnt

\* insertEntry with a buffer manager that serves n more readPage and
\* allocPage calls and fails the next (n = -1: it serves them all).
InsertEntryFault(k, n) ==
    /\ Alive
    /\ Constructed
    /\ ~scanExecuting
    /\ err # "BufferExceeded"
    /\ Apply(insertEntry([State EXCEPT !.err = NoError, !.faultIn = n],
                         k, RidOf(k, cnt[k] + 1)))
    /\ op' = "insertEntry"
    /\ args' = <<k, n>>
    /\ cnt' = IF err' = NoError THEN [cnt EXCEPT ![k] = @ + 1] ELSE cnt

\* The entries stored in the leaves of the file.
StoredEntries ==
    LET RECURSIVE Sum(_)
        Sum(p) == IF p = 0 THEN 0
                  ELSE (IF pages[p].isLeaf = 1 THEN pages[p].key_count ELSE 0) +
                       Sum(p - 1)
    IN  Sum(Len(pages))

\* insertEntry with any int key; the record id is that of the n-th record.
InsertEdge(k) ==
    /\ Alive
    /\ Constructed
    /\ ~scanExecuting
    /\ Apply([insertEntry(State, k, <<k, StoredEntries + 1>>) EXCEPT !.err = NoError])
    /\ op' = "insertEntry"
    /\ args' = <<k>>
    /\ UNCHANGED cnt

Close ==
    /\ Alive
    /\ Constructed
    /\ Apply(destructor(State))
    /\ op' = "close"
    /\ args' = <<>>
    /\ UNCHANGED cnt

\* The constructor called with attribute type type on the file that exists.
OpenAs(type) ==
    /\ ~Constructed
    /\ err # "PagePinned"
    /\ Apply(openIndex(State, relationName, 0, type))
    /\ op' = "open"
    /\ args' = <<type>>
    /\ UNCHANGED cnt

Open == OpenAs(INTEGER)

(***************************************************************************)
(* Specifications.  SpecTree: insertEntry calls only, with keys that are   *)
(* pairwise distinct (from 1..MaxKey) or repeat (from 1..MaxDupKey).       *)
(* Spec: insertEntry, startScan, scanNext and endScan in any order, no     *)
(* insertion while a scan is active.                                       *)
(***************************************************************************)
DistinctKeys(c) == \A k \in KeyDomain : c[k] <= 1

TreeKeyAllowed(k) ==
    LET c == [cnt EXCEPT ![k] = @ + 1]
    IN  \/ /\ k <= MaxKey
           /\ DistinctKeys(c)
           /\ NumInserted < MaxInserts
        \/ /\ \A j \in KeyDomain : c[j] > 0 => j <= MaxDupKey
           /\ NumInserted < MaxDupInserts

NextTree ==
    \E k \in KeyDomain :
        /\ TreeKeyAllowed(k)
        /\ InsertEntry(k)

SpecTree == Init /\ [][NextTree]_vars

ScanVals == 1..MaxScanKey

TotalPins(pn) ==
    LET RECURSIVE Sum(_)
        Sum(q) == IF q < 0 THEN 0 ELSE pn[q] + Sum(q - 1)
    IN  Sum(Len(pages))

Next ==
    \/ \E k \in 1..MaxScanKey :
          /\ NumInserted < MaxScanInserts
          /\ InsertEntry(k)
    \/ \E lo \in ScanVals, hi \in ScanVals, lop \in Operator, hop \in Operator :
          /\ TotalPins(pin) < MaxPins
          /\ StartScan(lo, lop, hi, hop)
    \/ ScanNext
    \/ EndScan

Spec == Init /\ [][Next]_vars

\* SpecReopen: insertEntry calls with pairwise distinct keys, the index
\* destroyed and constructed again over its file at any point.
NextReopen ==
    \/ \E k \in 1..MaxReopenKey :
          /\ NumInserted < MaxReopenInserts
          /\ cnt[k] = 0
          /\ InsertEntry(k)
    \/ Close
    \/ Open

SpecReopen == Init /\ [][NextReopen]_vars

\* SpecOpen: as SpecReopen, the constructor called with any attribute type.
NextOpen ==
    \/ \E k \in 1..MaxReopenKey :
          /\ NumInserted < MaxReopenInserts
          /\ cnt[k] = 0
          /\ InsertEntry(k)
    \/ Close
    \/ \E type \in Datatype :
          /\ TotalPins(pin) < MaxPins
          /\ OpenAs(type)

SpecOpen == Init /\ [][NextOpen]_vars

\* SpecFault: insertEntry calls with pairwise distinct keys, the buffer
\* manager failing any one of its calls.
NextFault ==
    \E k \in 1..MaxFaultKey, n \in -1..MaxFaultIn :
        /\ NumInserted < MaxFaultInserts
        /\ cnt[k] = 0
        /\ InsertEntryFault(k, n)

SpecFault == Init /\ [][NextFault]_vars

\* SpecEdge: insertEntry calls with keys at the ends and in the middle of the
\* range of int.
EdgeKeys == {INT_MIN, INT_MIN + 1, -1, 0, 1, INT_MAX - 1, INT_MAX}

NextEdge ==
    \E k \in EdgeKeys :
        /\ StoredEntries < MaxEdgeInserts
        /\ InsertEdge(k)

SpecEdge == Init /\ [][NextEdge]_vars

\* SpecMix: insertEntry calls with pairwise distinct keys between scans of
\* the whole key range or of its upper end.
MixScanVals == {1, MaxMixKey}

NextMix ==
    \/ \E k \in 1..MaxMixKey :
          /\ NumInserted < MaxMixInserts
          /\ cnt[k] = 0
          /\ InsertEntry(k)
    \/ \E lo \in MixScanVals :
          /\ TotalPins(pin) < MaxPins
          /\ StartScan(lo, GTE, MaxMixKey, LTE)
    \/ ScanNext
    \/ EndScan

SpecMix == Init /\ [][NextMix]_vars


(***************************************************************************)
(* What a caller sees of a whole scan: startScan, then scanNext until it   *)
(* throws (the loop of intScan, main.cpp lines 828-870).                   *)
(***************************************************************************)
RECURSIVE ScanLoop(_, _)
ScanLoop(S, acc) ==
    LET S1 == scanNext(S)
    IN  IF S1.err # NoError THEN [rids |-> acc, err |-> S1.err]
        ELSE ScanLoop(S1, Append(acc, S1.outRid))

intScan(S, lowVal, lowOpArg, highVal, highOpArg) ==
    LET S1 == startScan(S, lowVal, lowOpArg, highVal, highOpArg)
    IN  IF S1.err # NoError THEN [rids |-> <<>>, err |-> S1.err]
        ELSE ScanLoop(S1, <<>>)

\* The low and the high predicate of a scan.
InRange(k, lowVal, lowOpArg, highVal, highOpArg) ==
    /\ IF lowOpArg = GTE THEN k >= lowVal ELSE k > lowVal
    /\ IF highOpArg = LTE THEN k <= highVal ELSE k < highVal

\* The record ids of the inserted entries whose key is in range.
Expected(lowVal, lowOpArg, highVal, highOpArg) ==
    {RidOf(k, n) : k \in {j \in KeyDomain :
                            InRange(j, lowVal, lowOpArg, highVal, highOpArg)},
                   n \in 1..MaxOf(MaxInserts, MaxDupInserts)} \cap
    UNION {{RidOf(k, n) : n \in 1..cnt[k]} : k \in KeyDomain}

SeqRange(q) == {q[i] : i \in 1..Len(q)}

\* rids holds exactly the members of set, each once.
ExactlyOnce(rids, set) ==
    /\ SeqRange(rids) = set
    /\ Len(rids) = Cardinality(set)

TreeScanVals == 0..(MaxKey + 1)

\* C1: with pairwise distinct keys, a scan with lowVal <= highVal and valid
\* operators emits exactly the record ids of the inserted entries whose key
\* satisfies both bounds, each once, and then ends with IndexScanCompleted
\* (or startScan ends with NoSuchKeyFound and nothing is in range).
C1_ScanExact ==
    (DistinctKeys(cnt) /\ NumInserted > 0) =>
        \A lo \in TreeScanVals, hi \in TreeScanVals,
           lop \in {GT, GTE}, hop \in {LT, LTE} :
            lo <= hi =>
                LET r == intScan(State, lo, lop, hi, hop)
                IN  /\ r.err \in {"IndexScanCompleted", "NoSuchKeyFound"}
                    /\ ExactlyOnce(r.rids, Expected(lo, lop, hi, hop))


(***************************************************************************)
(* Reading the tree: the leaf chain and the subtrees, as the pages hold    *)
(* them.                                                                   *)
(***************************************************************************)
Root == pages[rootPageNum]

\* The leaf reached from page p through pageNoArray[0] (0: there is none).
RECURSIVE LeftmostLeaf(_)
LeftmostLeaf(p) ==
    IF p = 0 THEN 0
    ELSE IF pages[p].isLeaf = 1 THEN p
    ELSE IF pages[p].key_count = 0 THEN 0
    ELSE LeftmostLeaf(pages[p].pageNoArray[0])

\* The page ids along rightSibPageNo, from leaf p on; fuel bounds the walk.
RECURSIVE ChainFrom(_, _)
ChainFrom(p, fuel) ==
    IF p = 0 \/ fuel = 0 THEN <<>>
    ELSE <<p>> \o ChainFrom(pages[p].rightSibPageNo, fuel - 1)

LeafChain == ChainFrom(LeftmostLeaf(rootPageNum), Len(pages))

\* The keys of slots [0, key_count) of leaf p, in slot order.
LeafKeys(p) == [i \in 1..pages[p].key_count |-> pages[p].keyArray[i - 1]]

RECURSIVE Flatten(_)
Flatten(ps) == IF ps = <<>> THEN <<>> ELSE LeafKeys(Head(ps)) \o Flatten(Tail(ps))

ChainKeys == Flatten(LeafChain)

\* The child slots a non-leaf node uses: 0..key_count (none while it is empty).
ChildSlots(p) ==
    IF pages[p].isLeaf = 1 \/ pages[p].key_count = 0 THEN {}
    ELSE 0..pages[p].key_count

\* The pages reachable from p by child pointers, p included.
RECURSIVE Reach(_)
Reach(p) == {p} \cup UNION {Reach(pages[p].pageNoArray[i]) : i \in ChildSlots(p)}

\* The keys stored in the leaves of the subtree of p.
RECURSIVE SubKeys(_)
SubKeys(p) ==
    IF pages[p].isLeaf = 1 THEN SeqRange(LeafKeys(p))
    ELSE UNION {SubKeys(pages[p].pageNoArray[i]) : i \in ChildSlots(p)}

\* The depths (root = 0) at which leaves are reached from p at depth d.
RECURSIVE LeafDepths(_, _)
LeafDepths(p, d) ==
    IF pages[p].isLeaf = 1 THEN {d}
    ELSE UNION {LeafDepths(pages[p].pageNoArray[i], d + 1) : i \in ChildSlots(p)}

InternalNodes == {p \in Reach(rootPageNum) : pages[p].isLeaf = 0}

Sorted(q) == \A i \in 1..(Len(q) - 1) : q[i] <= q[i + 1]

\* The leaves that hold key k in a slot below key_count.
LeavesWith(k) ==
    {p \in 1..Len(pages) :
        pages[p].isLeaf = 1 /\ k \in SeqRange(LeafKeys(p))}

\* C2: an all-inclusive scan [INT_MIN, INT_MAX] emits the record id of every
\* inserted entry exactly once, duplicate keys included, and nothing else.
C2_FullScan ==
    NumInserted > 0 =>
        LET r == intScan(State, INT_MIN, GTE, INT_MAX, LTE)
        IN  /\ r.err = "IndexScanCompleted"
            /\ ExactlyOnce(r.rids, Expected(INT_MIN, GTE, INT_MAX, LTE))

\* C3: when the entries with key k lie in more than one leaf, the scan [k, k]
\* emits every inserted entry with key k.
C3_EqualKeyScan ==
    \A k \in KeyDomain :
        Cardinality(LeavesWith(k)) > 1 =>
            SeqRange(intScan(State, k, GTE, k, LTE).rids) = Expected(k, GTE, k, LTE)

\* C4: after insertEntry returns no page is pinned, and no unPinPage was
\* issued for a page without a pin.
C4_NoPinAfterInsert ==
    op = "insertEntry" => (\A q \in DOMAIN pin : pin[q] = 0) /\ ~pinErr

\* C4 witness: an insert that split a leaf, split internal nodes and promoted
\* a new root which later took a separator from a recursive internal split.
C4_Witness ==
    /\ op = "insertEntry"
    /\ rootPageNum # 2
    /\ Root.key_count >= 2
    /\ \A q \in DOMAIN pin : pin[q] = 0

\* C6: the keys along the leaf chain are in non-decreasing order.
C6_ChainSorted == Sorted(ChainKeys)

\* C7 (for runs with pairwise distinct keys): in every internal node, the
\* keys under pageNoArray[i] are below keyArray[i] and the keys under
\* pageNoArray[i + 1] are at least keyArray[i].
C7_Routing ==
    DistinctKeys(cnt) =>
        \A p \in InternalNodes : \A i \in 0..(pages[p].key_count - 1) :
            /\ \A k \in SubKeys(pages[p].pageNoArray[i]) : k < pages[p].keyArray[i]
            /\ \A k \in SubKeys(pages[p].pageNoArray[i + 1]) : k >= pages[p].keyArray[i]

\* C8: every leaf reachable from the root is at the same depth.
C8_EqualDepth == Cardinality(LeafDepths(rootPageNum, 0)) <= 1

\* C8 witness: a tree of three levels of internal nodes above the leaves.
C8_Witness ==
    /\ LeafDepths(rootPageNum, 0) = {3}
    /\ Cardinality({p \in Reach(rootPageNum) : pages[p].isLeaf = 1}) >= 5

\* C5: between the calls of a run of startScan, scanNext and endScan calls the
\* index holds no pin while no scan is active and one pin while a scan is
\* active, also when startScan is called during a scan.
C5_ScanPins ==
    Alive => TotalPins(pin) = (IF scanExecuting THEN 1 ELSE 0)

BadOps(lowOpParm, highOpParm) ==
    \/ lowOpParm \notin {GT, GTE}
    \/ highOpParm \notin {LT, LTE}

\* C9: a startScan whose lowOp is not GT or GTE, or whose highOp is not LT or
\* LTE, ends with BadOpcodes whatever lowVal and highVal are, pins and unpins
\* nothing and leaves the scanning flag as it was.
C9_BadOpcodes ==
    [][(op' = "startScan" /\ BadOps(args'[2], args'[4])) =>
            /\ err' = "BadOpcodes"
            /\ pin' = pin
            /\ pinErr' = pinErr
            /\ scanExecuting' = scanExecuting]_vars

\* C9 witness: no scan is active, and a startScan with lowVal > highVal and a
\* lowOp that is not GT or GTE has ended with BadOpcodes.
C9_Witness ==
    /\ op = "startScan"
    /\ args[1] > args[3]
    /\ args[2] \notin {GT, GTE}
    /\ err = "BadOpcodes"
    /\ ~scanExecuting
    /\ TotalPins(pin) = 0
    /\ NumInserted > 0

\* C10: a startScan with valid operators ends with BadScanrange exactly when
\* lowVal > highVal (never when lowVal = highVal); the call that ends so pins
\* and unpins nothing and leaves the scanning flag as it was.
C10_BadScanrange ==
    [][(op' = "startScan" /\ ~BadOps(args'[2], args'[4])) =>
            /\ (err' = "BadScanrange") <=> (args'[1] > args'[3])
            /\ (err' = "BadScanrange") =>
                    /\ pin' = pin
                    /\ pinErr' = pinErr
                    /\ scanExecuting' = scanExecuting]_vars

\* C10 witness: a startScan with lowVal = highVal, GT and LT was accepted (it
\* ended with NoSuchKeyFound) on an index that holds that key.
C10_Witness ==
    /\ op = "startScan"
    /\ args[1] = args[3]
    /\ args[2] = GT
    /\ args[4] = LT
    /\ err = "NoSuchKeyFound"
    /\ cnt[args[1]] > 0

\* C11: scanNext and endScan called while no scan is active end with
\* ScanNotInitialized and change nothing else; and no scan is active after
\* construction, after an endScan that returned, and after a startScan that
\* ended with NoSuchKeyFound.
C11_ScanNotInitialized ==
    [][/\ (~scanExecuting /\ op' \in {"scanNext", "endScan"}) =>
            /\ err' = "ScanNotInitialized"
            /\ ~scanExecuting'
            /\ pin' = pin
            /\ outRid' = outRid
       /\ (op' = "endScan" /\ err' = NoError) => ~scanExecuting'
       /\ (op' = "startScan" /\ err' = "NoSuchKeyFound") => ~scanExecuting'
       /\ (op' = "startScan" /\ err' \in {"BadOpcodes", "BadScanrange"}) =>
            scanExecuting' = scanExecuting]_vars

\* C11 witness: a scan emitted a record id and was ended, and a further
\* endScan has ended with ScanNotInitialized.
C11_Witness ==
    /\ op = "endScan"
    /\ err = "ScanNotInitialized"
    /\ outRid # NoRid
    /\ ~scanExecuting
    /\ TotalPins(pin) = 0

\* C12: on a non-empty index, a startScan (valid operators, lowVal <= highVal,
\* no scan active) whose bounds no inserted key satisfies ends with
\* NoSuchKeyFound, with the scanning flag false and no page pinned.
C12_NoSuchKeyFound ==
    NumInserted > 0 =>
        \A lo \in TreeScanVals, hi \in TreeScanVals,
           lop \in {GT, GTE}, hop \in {LT, LTE} :
            (lo <= hi /\ Expected(lo, lop, hi, hop) = {}) =>
                LET S1 == startScan(State, lo, lop, hi, hop)
                IN  /\ S1.err = "NoSuchKeyFound"
                    /\ ~S1.scanExecuting
                    /\ \A q \in DOMAIN S1.pin : S1.pin[q] = 0
                    /\ ~S1.pinErr

\* C13: on an index without entries, a startScan with valid operators and
\* lowVal <= highVal ends with NoSuchKeyFound, no scan is active afterwards
\* and page id 0 was not read (a read leaves its pin on the page).
C13_EmptyIndexScan ==
    (/\ op = "startScan"
     /\ NumInserted = 0
     /\ ~BadOps(args[2], args[4])
     /\ args[1] <= args[3]) =>
        /\ err = "NoSuchKeyFound"
        /\ ~scanExecuting
        /\ pin[0] = 0

\* C14: on an index with entries the scan never reads page id 0: no pin is
\* ever held on page 0 and the cursor of an active scan is never on page 0.
C14_NoReadOfPageZero ==
    NumInserted > 0 =>
        /\ pin[0] = 0
        /\ scanExecuting => currentPageNum # 0

ReopenScanVals == 0..(MaxReopenKey + 1)

\* What the constructor finds when it opens the file of the index again.
Reopened(S) == openIndex(S, relationName, 0, INTEGER)

\* C15: destroying the index and constructing it again over the same
\* relation, offset and type opens the file that exists: the constructor
\* succeeds, inserts nothing (every page reads as it did before the close),
\* adopts the root page id stored in the meta page, which is the root the
\* closed index had, and every scan returns what it returned before the close.
C15_RoundTrip ==
    [][/\ op' = "close" =>
            /\ err' = NoError
            /\ Reopened(State').err = NoError
            /\ Reopened(State').pages = pages
            /\ Reopened(State').rootPageNum = rootPageNum
            /\ \A lo \in ReopenScanVals, hi \in ReopenScanVals,
                  lop \in {GT, GTE}, hop \in {LT, LTE} :
                   intScan(Reopened(State'), lo, lop, hi, hop) =
                       intScan(State, lo, lop, hi, hop)
       /\ op' = "open" =>
            /\ err' = NoError
            /\ rootPageNum' = disk[1].rootPageNo
            /\ pages' = pages
            /\ disk' = disk
            /\ cnt' = cnt
            /\ \A q \in DOMAIN pin' : pin'[q] = 0]_vars

\* An index reopened after its root has moved, holding at least three entries.
C15_Witness ==
    /\ op = "open"
    /\ rootPageNum # 2
    /\ Len(intScan(State, 0, GTE, MaxKey + 1, LTE).rids) >= 3

\* The node pages of the file: every page but the meta page.
NodePages == (1..Len(pages)) \ {headerPageNum}

\* C16: after every insertEntry exactly one allocated node page has
\* parent = 0, and it is the page the meta page records as rootPageNo.
C16_SingleRoot ==
    op = "insertEntry" =>
        {p \in NodePages : pages[p].parent = 0} = {pages[headerPageNum].rootPageNo}

\* C17: every node reachable from the root, other than the root, holds at
\* least one key; so do both leaves the first insert creates.
C17_NonEmptyNodes ==
    op = "insertEntry" =>
        \A p \in Reach(rootPageNum) \ {rootPageNum} : pages[p].key_count >= 1

\* C18: in every internal node reachable from the root, keyArray[i] with
\* i < key_count is the smallest key stored in the subtree of
\* pageNoArray[i + 1] (stated for the subtrees that hold a key).
C18_SeparatorIsMin ==
    op = "insertEntry" =>
        \A p \in InternalNodes : \A i \in 0..(pages[p].key_count - 1) :
            LET sub == SubKeys(pages[p].pageNoArray[i + 1])
            IN  sub # {} =>
                    /\ pages[p].keyArray[i] \in sub
                    /\ \A k \in sub : pages[p].keyArray[i] <= k

\* The pages the used child slots of node p name.
Children(p) == {pages[p].pageNoArray[i] : i \in ChildSlots(p)}

\* C19: every child of an internal node reachable from the root names that
\* node in its parent field, and no page is a child of two different
\* internal nodes.
C19_ParentPointers ==
    op = "insertEntry" =>
        /\ \A p \in InternalNodes : \A c \in Children(p) : pages[c].parent = p
        /\ \A p \in InternalNodes, q \in InternalNodes :
               p # q => Children(p) \cap Children(q) = {}

\* The keys of slots [0, key_count) of node p, in slot order.
NodeKeys(p) == [i \in 1..pages[p].key_count |-> pages[p].keyArray[i - 1]]

\* C20: with duplicate keys allowed, the keys of every internal node
\* reachable from the root are strictly increasing.
C20_StrictSeparators ==
    op = "insertEntry" =>
        \A p \in InternalNodes : \A i \in 1..(pages[p].key_count - 1) :
            NodeKeys(p)[i] < NodeKeys(p)[i + 1]

\* C21: insertEntry releases a page with dirty = true exactly when it has
\* modified the page.  Stated for a call that starts with no dirty frame
\* (dirty' is then the set of pages the call released with dirty = true) and
\* for the pages that exist before the call: such a page is in dirty' if and
\* only if it reads differently after the call.
C21_DirtyIffModified ==
    [][(op' = "insertEntry" /\ dirty = {}) =>
          \A p \in 1..Len(pages) : (p \in dirty') <=> (pages'[p] # pages[p])]_vars

\* C22: when the constructor opens the index file with an attribute type
\* other than the stored one, it fails with BadIndexInfo and has released
\* the meta page it pinned: every pin count is what it was before the call.
C22_BadIndexInfo ==
    [][(op' = "open" /\ args'[1] # disk[headerPageNum].attrType) =>
          /\ err' = "BadIndexInfo"
          /\ pin' = pin]_vars

\* C23: when the buffer manager fails a readPage or allocPage call of an
\* insertEntry, the error reaches the caller and no page the call had
\* pinned stays pinned.
C23_FaultReleasesPins ==
    (op = "insertEntry" /\ err = "BufferExceeded") =>
        \A q \in DOMAIN pin : pin[q] = 0

\* The pages the used child slots of node p name, in the pages pgs.
ChildrenOf(pgs, p) ==
    IF pgs[p].isLeaf = 1 \/ pgs[p].key_count = 0 THEN {}
    ELSE {pgs[p].pageNoArray[i] : i \in 0..pgs[p].key_count}

\* A leaf split of this step: t is the one-key node it allocates, new and
\* without parent, over the old leaf pageNoArray[0] and the new leaf.
LeafSplitAt(t) ==
    /\ pages'[t].isLeaf = 0
    /\ pages'[t].key_count = 1
    /\ pages'[t].parent = 0
    /\ pages'[t].pageNoArray[0] \in 1..Len(pages)
    /\ pages[pages'[t].pageNoArray[0]].isLeaf = 1

\* An internal split of this step: p was full and is not any more, t is the
\* one-key parent the split allocates over p and the new node.
InternalSplitAt(p, t) ==
    /\ p # headerPageNum
    /\ pages[p].isLeaf = 0
    /\ pages[p].key_count = INTARRAYNONLEAFSIZE
    /\ pages'[p].key_count < INTARRAYNONLEAFSIZE
    /\ pages'[t].isLeaf = 0
    /\ pages'[t].key_count = 1
    /\ pages'[t].pageNoArray[0] = p
    /\ pages'[t].pageNoArray[1] \in (Len(pages) + 1)..Len(pages')

\* C24: when insertEntry splits a full internal node p, the children p had
\* before and the new child are afterwards held by p and the new node, each
\* by exactly one slot: none is lost, overwritten or held twice.  The new
\* node is the right child of the one-key parent the split allocates over p.
C24_SplitKeepsChildren ==
    [][op' = "insertEntry" =>
          \A p \in 1..Len(pages) :
             \A t \in (Len(pages) + 1)..Len(pages') :
                InternalSplitAt(p, t) =>
                    LET q == pages'[t].pageNoArray[1]
                    IN  /\ ChildrenOf(pages, p) \subseteq
                               ChildrenOf(pages', p) \cup ChildrenOf(pages', q)
                        /\ ChildrenOf(pages', p) \cap ChildrenOf(pages', q) = {}
                        /\ Cardinality(ChildrenOf(pages', p) \cup
                                       ChildrenOf(pages', q)) =
                               INTARRAYNONLEAFSIZE + 2]_vars

\* The entries of slots [0, key_count) of a leaf page, in slot order.
Entries(pg) == [i \in 1..pg.key_count |-> <<pg.keyArray[i - 1], pg.ridArray[i - 1]>>]

\* The slots [from, to) of a leaf page, in slot order.
Slots(pg, from, to) ==
    [i \in 1..(to - from) |-> <<pg.keyArray[from + i - 1], pg.ridArray[from + i - 1]>>]

\* q is old with the entry e added at a place that keeps the keys in order.
AddedSorted(q, old, e) ==
    /\ SelectSeq(q, LAMBDA x : x # e) = old
    /\ Len(q) = Len(old) + 1
    /\ \A i \in 1..(Len(q) - 1) : q[i][1] <= q[i + 1][1]

\* The key of the insertEntry call of this step.
InsertedKey == CHOOSE k \in KeyDomain : cnt'[k] = cnt[k] + 1

\* C25: an insertEntry that hits a full leaf L leaves the old slots
\* [0, N_L/2) in L and the old slots [N_L/2, N_L) in the new leaf R, the new
\* entry added in key order to L if its key is below R's first key and to R
\* otherwise; the key counts add up to N_L + 1; L links to R and R to the old
\* right sibling of L; the separator handed to the parent is R.keyArray[0].
\* The split is known by the one-key node t it allocates over L and R (a new
\* non-leaf page without parent whose left child is an old leaf).
C25_LeafSplit ==
    [][op' = "insertEntry" =>
          \A t \in (Len(pages) + 1)..Len(pages') :
             LeafSplitAt(t) =>
                 LET L == pages'[t].pageNoArray[0]
                     R == pages'[t].pageNoArray[1]
                     e == <<InsertedKey, RidOf(InsertedKey, cnt'[InsertedKey])>>
                     low == Slots(pages[L], 0, middle)
                     high == Slots(pages[L], middle, INTARRAYLEAFSIZE)
                 IN  /\ pages[L].key_count = INTARRAYLEAFSIZE
                     /\ R \in (Len(pages) + 1)..Len(pages')
                     /\ pages'[R].isLeaf = 1
                     /\ IF InsertedKey < pages[L].keyArray[middle]
                        THEN /\ AddedSorted(Entries(pages'[L]), low, e)
                             /\ Entries(pages'[R]) = high
                        ELSE /\ Entries(pages'[L]) = low
                             /\ AddedSorted(Entries(pages'[R]), high, e)
                     /\ pages'[L].key_count + pages'[R].key_count =
                           INTARRAYLEAFSIZE + 1
                     /\ pages'[L].rightSibPageNo = R
                     /\ pages'[R].rightSibPageNo = pages[L].rightSibPageNo
                     /\ pages'[t].keyArray[0] = pages'[R].keyArray[0]]_vars

\* Keys 3, 1, 2 inserted: the third insert has split the leaf [1, 3] (page 3)
\* and added key 2 to the old leaf.
C25_Witness ==
    /\ NumInserted = 3
    /\ Len(pages) = 6
    /\ pages[3].rightSibPageNo = 5
    /\ Entries(pages[3]) = <<<<1, RidOf(1, 1)>>, <<2, RidOf(2, 1)>>>>
    /\ Entries(pages[5]) = <<<<3, RidOf(3, 1)>>>>

\* How often key v is in slots [0, key_count) of the node page pg.
KeyCount(pg, v) == Cardinality({i \in 0..(pg.key_count - 1) : pg.keyArray[i] = v})

\* An internal split lifts keyArray[N_I/2] into the new parent t; the two
\* halves hold N_I keys, the old keys without one copy of the lifted key
\* and the pending separator.
MedianLifted(p, t) ==
    /\ pages'[t].keyArray[0] = pages[p].keyArray[splitIndex]
    /\ pages'[p].key_count + pages'[pages'[t].pageNoArray[1]].key_count =
          INTARRAYNONLEAFSIZE
    /\ \A i \in 0..(INTARRAYNONLEAFSIZE - 1) :
          KeyCount(pages'[p], pages[p].keyArray[i]) +
          KeyCount(pages'[pages'[t].pageNoArray[1]], pages[p].keyArray[i]) +
          (IF pages[p].keyArray[i] = pages[p].keyArray[splitIndex] THEN 1 ELSE 0)
             >= KeyCount(pages[p], pages[p].keyArray[i])

C27_SeedAboveKey ==
    (op = "insertEntry" /\ StoredEntries = 1) =>
        /\ Root.keyArray[0] > args[1]
        /\ intScan(State, args[1], GTE, args[1], LTE).rids = <<<<args[1], 1>>>>

\* C28: a scanNext that fails with IndexScanCompleted leaves the caller's
\* outRid and the cursor (currentPageNum, nextEntry) as they were.
C28_CompletedKeepsOutRid ==
    [][(op' = "scanNext" /\ err' = "IndexScanCompleted") =>
          /\ outRid' = outRid
          /\ currentPageNum' = currentPageNum
          /\ nextEntry' = nextEntry]_vars

\* C29: after a scanNext has failed with IndexScanCompleted the scan is still
\* active; the next scanNext fails with IndexScanCompleted again and does not
\* move the cursor, and the following endScan succeeds, clears scanExecuting
\* and leaves no page pinned.
C29_CompletedScanStaysActive ==
    [][(op = "scanNext" /\ err = "IndexScanCompleted") =>
          /\ scanExecuting
          /\ (op' = "scanNext") =>
                 /\ err' = "IndexScanCompleted"
                 /\ scanExecuting'
                 /\ currentPageNum' = currentPageNum
                 /\ nextEntry' = nextEntry
          /\ (op' = "endScan") =>
                 /\ err' = NoError
                 /\ ~scanExecuting'
                 /\ ~pinErr'
                 /\ \A q \in DOMAIN pin' : pin'[q] = 0]_vars

\* C30: a startScan that fails with BadOpcodes or BadScanrange while a scan
\* is active leaves that scan's bounds, operators, cursor, scanning flag and
\* pinned leaf unchanged.
C30_FailedStartScanKeepsScan ==
    [][(scanExecuting /\ op' = "startScan"
          /\ err' \in {"BadOpcodes", "BadScanrange"}) =>
          /\ lowValInt' = lowValInt
          /\ highValInt' = highValInt
          /\ lowOp' = lowOp
          /\ highOp' = highOp
          /\ currentPageNum' = currentPageNum
          /\ nextEntry' = nextEntry
          /\ scanExecuting' = scanExecuting
          /\ pin' = pin]_vars

\* C31: after every completed insertEntry each allocated page is the meta
\* page, the root, or a node reachable from the root through child pointers;
\* no allocated page is abandoned.
C31_NoAbandonedPage ==
    (op = "insertEntry" /\ err = NoError) =>
        NodePages \subseteq Reach(rootPageNum)

\* The leaves reachable from the root through child pointers.
ReachableLeaves == {p \in Reach(rootPageNum) : pages[p].isLeaf = 1}

\* C32: after any sequence of insertEntry calls the right-sibling chain from
\* the leftmost leaf is acyclic, ends with rightSibPageNo = 0 and visits
\* exactly the leaves reachable from the root, each once; a started scan ends
\* with IndexScanCompleted after at most as many RIDs as entries inserted.
C32_LeafChain ==
    op = "insertEntry" =>
        /\ LeafChain # <<>>
        /\ Len(LeafChain) = Cardinality(SeqRange(LeafChain))
        /\ pages[LeafChain[Len(LeafChain)]].rightSibPageNo = 0
        /\ SeqRange(LeafChain) = ReachableLeaves
        /\ \A lo \in TreeScanVals :
              LET scan == intScan(State, lo, GTE, MaxKey + 1, LTE)
              IN  scan.err \in {"IndexScanCompleted", "NoSuchKeyFound"}
                  /\ Len(scan.rids) <= NumInserted

\* The insertEntry of this step split the root: the old root was full and the
\* new root is a page allocated in this step whose two children are the old
\* root and another page allocated in this step.
RootSplit ==
    /\ op' = "insertEntry"
    /\ pages[rootPageNum].key_count = INTARRAYNONLEAFSIZE
    /\ rootPageNum' \in (Len(pages) + 1)..Len(pages')
    /\ pages'[rootPageNum'].key_count = 1
    /\ pages'[rootPageNum'].pageNoArray[0] = rootPageNum
    /\ pages'[rootPageNum'].pageNoArray[1] \in (Len(pages) + 1)..Len(pages')
    /\ pages'[rootPageNum'].pageNoArray[1] # rootPageNum'

\* C33: after construction and after every insertEntry, rootPageNum equals
\* the rootPageNo of the meta page and names a node with isLeaf = 0; it
\* changes only in an insertEntry that splits the root, and then names the
\* new node whose children are the old root and its new sibling.
C33_RootPageNum ==
    /\ []((op \in {"new", "open", "insertEntry"} /\ err = NoError) =>
             /\ rootPageNum = pages[headerPageNum].rootPageNo
             /\ pages[rootPageNum].isLeaf = 0)
    /\ [][rootPageNum' # rootPageNum => RootSplit]_vars

\* An insertEntry has just split the root: the root is a new one-key node
\* over the first root.
C33_Witness ==
    /\ op = "insertEntry"
    /\ err = NoError
    /\ rootPageNum # 2
    /\ Root.key_count = 1
    /\ pages[Root.pageNoArray[0]].parent = rootPageNum

\* The state the constructor leaves when it creates the index file.
Created == createIndex(NewFile, relationName, 0, INTEGER)

\* The state the insertEntry of this step leaves, with the pages it wrote
\* and the pages it released dirty after writing them.
Inserted == insertEntry(State, InsertedKey, RidOf(InsertedKey, cnt'[InsertedKey]))

\* C34: every page written during construction or during an insertEntry is
\* released with dirty = true at least once after it was written, within the
\* same operation; startScan, scanNext and endScan write no page.
C34_WrittenReleasedDirty ==
    /\ [](op = "new" =>
             /\ pages = Created.pages
             /\ disk = Created.pages
             /\ Created.written \subseteq Created.released)
    /\ [][/\ (op' = "insertEntry") =>
                  /\ pages' = Inserted.pages
                  /\ {p \in 1..Len(pages') :
                         p > Len(pages) \/ pages'[p] # pages[p]}
                        \subseteq Inserted.written
                  /\ Inserted.written \subseteq Inserted.released
                  /\ Inserted.released \subseteq dirty'
          /\ (op' \in {"startScan", "scanNext", "endScan"}) =>
                  pages' = pages]_vars

\* An insertEntry after a scan has split the root: the meta page, both
\* halves and the new root were written.
C34_Witness ==
    /\ op = "insertEntry"
    /\ rootPageNum # 2
    /\ outRid # NoRid
    /\ {headerPageNum, rootPageNum, 2} \subseteq dirty

=============================================================================
